---- MODULE Spec2Model ----
(***************************************************************************)
(* Model of the block chain of src/block.rs, with its list container       *)
(* (src/linked_list.rs) and result type (src/mresult.rs).                  *)
(*                                                                         *)
(* A LinkedList is a sequence, head first.  Strings are strings; the       *)
(* decimal rendering of a number (to_string) and the concatenation of the  *)
(* fields fed to the hasher are computed as the code computes them.        *)
(* SHA-256 itself is idealised as an injective function of the bytes fed   *)
(* to it (Sha256Hex), so two digests are equal exactly when the byte       *)
(* strings fed to the hasher are equal.                                    *)
(***************************************************************************)
EXTENDS Integers, Sequences, FiniteSets, TLC

\* ------------------------------------------------------------------ bounds

\* Longest chain explored (number of successful add_block calls).
MaxBlocks == 2
\* Most transactions a caller builds in one run.
MaxTxs == 2
\* Largest height a caller gives a block.
MaxHeight == 1

\* ------------------------------------------------------------ Option, maps

None == <<>>
Some(x) == <<x>>
is_some(o) == o # None

\* HashMap::new
EmptyMap == [k \in {} |-> k]
\* HashMap::insert: a new key is added, an existing key is overwritten
HashMap_insert(m, key, val) ==
    [k \in (DOMAIN m) \cup {key} |-> IF k = key THEN val ELSE m[k]]
\* HashMap::get
HashMap_get(m, key) == IF key \in DOMAIN m THEN Some(m[key]) ELSE None

\* MResult::Ok(()) and MResult::Err("Invalid block")
Ok == "Ok"
Err == "Err(Invalid block)"
\* no MResult was returned by the last operation
NoResult == "-"

\* ------------------------------------------------------------- LinkedList

\* LinkedList::new
LinkedList_new == <<>>

\* a slip that appends instead of prepending
push_back(list, val) == list \o <<val>>
\* a slip that forgets the old head: next is None
push_front_forgetful(list, val) == <<val>>
\* LinkedList::push_front
push_front(list, val) == <<val>> \o list

\* the loop of Clone::clone: every item, head first, is pushed to the front
RECURSIVE clone_loop(_, _)
clone_loop(rest, new_list) ==
    IF rest = <<>> THEN new_list
    ELSE clone_loop(Tail(rest), push_front(new_list, Head(rest)))

\* impl Clone for LinkedList (the items already cloned)
LinkedList_clone(list) == clone_loop(list, LinkedList_new)

\* ----------------------------------------------------------------- hashing

Digit(d) ==
    CASE d = 0 -> "0" [] d = 1 -> "1" [] d = 2 -> "2" [] d = 3 -> "3"
      [] d = 4 -> "4" [] d = 5 -> "5" [] d = 6 -> "6" [] d = 7 -> "7"
      [] d = 8 -> "8" [] d = 9 -> "9"

\* u64::to_string and the like: the decimal text of a number
RECURSIVE to_string(_)
to_string(n) ==
    IF n < 10 THEN Digit(n) ELSE to_string(n \div 10) \o Digit(n % 10)

\* hex::encode(hasher.finalize()) of a hasher fed `bytes`
Sha256Hex(bytes) == "<" \o bytes \o ">"

\* ------------------------------------------------------------- Transaction

\* the bytes the loop over the inputs feeds to the hasher
RECURSIVE input_bytes(_)
input_bytes(inputs) ==
    IF inputs = <<>> THEN ""
    ELSE Head(inputs).prev_txid \o to_string(Head(inputs).vout)
           \o Head(inputs).signature \o to_string(Head(inputs).sequence)
           \o input_bytes(Tail(inputs))

\* the bytes the loop over the outputs feeds to the hasher
RECURSIVE output_bytes(_)
output_bytes(outputs) ==
    IF outputs = <<>> THEN ""
    ELSE Head(outputs).public_address \o to_string(Head(outputs).satoshis)
           \o output_bytes(Tail(outputs))

\* Transaction::calculate_txid
calculate_txid(tx) ==
    Sha256Hex(input_bytes(tx.inputs) \o output_bytes(tx.outputs))

\* Transaction::new
Transaction_new(inputs, outputs) ==
    LET tx == [inputs |-> inputs, outputs |-> outputs, txid |-> ""]
    IN  [tx EXCEPT !.txid = calculate_txid(tx)]

\* #[derive(Clone)] for Transaction: each field is cloned
Transaction_clone(tx) ==
    [inputs  |-> LinkedList_clone(tx.inputs),
     outputs |-> LinkedList_clone(tx.outputs),
     txid    |-> tx.txid]

\* ------------------------------------------------------------------- Block

\* the transactions fed to the hasher as well
RECURSIVE txid_bytes(_)
txid_bytes(transactions) ==
    IF transactions = <<>> THEN ""
    ELSE Head(transactions).txid \o txid_bytes(Tail(transactions))
calculate_hash_with_transactions(block) ==
    Sha256Hex(to_string(block.height) \o block.prev_block_hash
                \o to_string(block.timestamp) \o block.merkle_root
                \o to_string(block.nonce) \o txid_bytes(block.transactions))
\* the nonce left out of the digest
calculate_hash_without_nonce(block) ==
    Sha256Hex(to_string(block.height) \o block.prev_block_hash
                \o to_string(block.timestamp) \o block.merkle_root)
\* Block::calculate_hash
calculate_hash(block) ==
    Sha256Hex(to_string(block.height) \o block.prev_block_hash
                \o to_string(block.timestamp) \o block.merkle_root
                \o to_string(block.nonce))

\* Block::new
Block_new(height, prev_block_hash, timestamp, merkle_root, nonce) ==
    LET block == [hash |-> "", height |-> height,
                  transactions |-> LinkedList_new,
                  prev_block_hash |-> prev_block_hash,
                  timestamp |-> timestamp, merkle_root |-> merkle_root,
                  nonce |-> nonce]
    IN  [block EXCEPT !.hash = calculate_hash(block)]

\* Block::add_transaction: the block afterwards (the result is always Ok)
Block_add_transaction(block, transaction) ==
    LET pushed == [block EXCEPT
                     !.transactions = push_front(block.transactions, transaction)]
    IN  [pushed EXCEPT !.hash = calculate_hash(pushed)]

\* only the head is looked at: next() written for find()
Block_get_transaction_head_only(transactions, txid) ==
    IF transactions = <<>> THEN None
    ELSE IF Head(transactions).txid = txid THEN Some(Head(transactions))
    ELSE None
\* Block::get_transaction: the first transaction, head first, with this txid
RECURSIVE Block_get_transaction(_, _)
Block_get_transaction(transactions, txid) ==
    IF transactions = <<>> THEN None
    ELSE IF Head(transactions).txid = txid THEN Some(Head(transactions))
    ELSE Block_get_transaction(Tail(transactions), txid)

\* #[derive(Clone)] for Block: each field is cloned
Block_clone(block) ==
    [block EXCEPT !.transactions =
        LinkedList_clone([i \in DOMAIN block.transactions |->
                            Transaction_clone(block.transactions[i])])]

\* ------------------------------------------------------------------ inputs

TxInA == [prev_txid |-> "a", vout |-> 0, signature |-> "s", sequence |-> 1]
TxInB == [prev_txid |-> "b", vout |-> 1, signature |-> "s", sequence |-> 1]
TxOutA == [public_address |-> "p", satoshis |-> 50]

\* the input and output lists a caller builds a transaction from
TxInLists == {<<>>, <<TxInA, TxInB>>}
TxOutLists == {<<TxOutA>>}

\* the all-zero hash of the tests and the demo
ZeroHash == "00"
\* a hash no block has ("invalid_previous_hash" in the tests)
UnknownHash == "bogus"
Timestamps == {1}
MerkleRoots == {"m"}
Nonces == {7}

\* more inputs and outputs; the fields of TxInC and TxInD are made of the same
\* character
TxInC == [prev_txid |-> "1", vout |-> 1, signature |-> "1", sequence |-> 1]
TxInD == [prev_txid |-> "11", vout |-> 11, signature |-> "11", sequence |-> 11]
TxOutB == [public_address |-> "q", satoshis |-> 5]

\* the lists of at most two elements of S
ListsUpTo2(S) == {<<>>} \cup {<<x>> : x \in S} \cup {<<x, y>> : x \in S, y \in S}

TxInListsWide == ListsUpTo2({TxInA, TxInB, TxInC, TxInD})
TxOutListsWide == ListsUpTo2({TxOutA, TxOutB})

\* wider sets of field values, some of which run into each other when the
\* fields are fed to the hasher one after the other
TimestampsWide == {1, 11}
MerkleRootsWide == {"m", "1m"}
NoncesWide == {7, 17}

\* ------------------------------------------------------------------- state

VARIABLES
    blocks,        \* BlockChain.blocks: List<Block>, head first
    block_index,   \* BlockChain.block_index: hash -> Block
    height_index,  \* BlockChain.height_index: height -> hash
    blk,           \* the block the caller is building (an Option)
    tx,            \* the transaction the caller holds (an Option)
    result,        \* the MResult the last operation returned
    n_txs,         \* history: the number of Transaction::new calls so far
    chain_n,       \* history: the blocks inserted so far form a valid chain
                   \* of this many blocks (-1: they do not)
    submitted,     \* history: for each block inserted, most recent first, the
                   \* txids of its transactions as it was submitted
    pc,            \* at = "caller": any caller; otherwise main's position
                   \* and its loop variable i
    list,          \* a LinkedList of its own, pushed to and popped from
    pushes,        \* history: for each element of `list`, head first, the
                   \* value pushed and the list as it was before the push
    mres,          \* an MResult value (an Option)
    ret            \* what the last LinkedList or MResult operation returned

chain == <<blocks, block_index, height_index>>
\* the variables no operation of the chain or of its caller touches
aux == <<pc, list, pushes, mres, ret>>
vars == <<blocks, block_index, height_index, blk, tx, result, n_txs, chain_n,
          submitted, pc, list, pushes, mres, ret>>

\* ------------------------------------------------------------- BlockChain

\* BlockChain::get_block_by_hash
get_block_by_hash(index, hash) == HashMap_get(index, hash)

\* the genesis rule forgotten: every block needs a known previous hash
is_valid_block_no_genesis(index, block) ==
    is_some(get_block_by_hash(index, block.prev_block_hash))
\* every block accepted
is_valid_block_always(index, block) == TRUE
\* is_none() written for is_some()
is_valid_block_is_none(index, block) ==
    IF block.height > 0
    THEN ~is_some(get_block_by_hash(index, block.prev_block_hash))
    ELSE TRUE
\* BlockChain::is_valid_block
is_valid_block(index, block) ==
    IF block.height > 0
    THEN is_some(get_block_by_hash(index, block.prev_block_hash))
    ELSE TRUE

\* an off-by-one in the height looked up
get_block_by_height_off_by_one(height) ==
    IF is_some(HashMap_get(height_index, height + 1))
    THEN HashMap_get(block_index, HashMap_get(height_index, height + 1)[1])
    ELSE None
\* BlockChain::get_block_by_height
get_block_by_height(height) ==
    IF is_some(HashMap_get(height_index, height))
    THEN HashMap_get(block_index, HashMap_get(height_index, height)[1])
    ELSE None

\* BlockChain::get_block_count
get_block_count == Len(blocks)

\* BlockChain::get_best_block_hash
get_best_block_hash ==
    IF blocks = <<>> THEN None ELSE Some(Head(blocks).hash)

\* BlockChain::get_transaction: blocks head first, the first match
RECURSIVE find_map_get_transaction(_, _)
find_map_get_transaction(bs, txid) ==
    IF bs = <<>> THEN None
    ELSE IF is_some(Block_get_transaction(Head(bs).transactions, txid))
    THEN Block_get_transaction(Head(bs).transactions, txid)
    ELSE find_map_get_transaction(Tail(bs), txid)

get_transaction(txid) == find_map_get_transaction(blocks, txid)

\* BlockChain::get_transaction: the place in the sequence, head first = 1, of
\* the block the result is a reference into (0: no block matches)
RECURSIVE find_map_position(_, _)
find_map_position(bs, txid) ==
    IF bs = <<>> THEN 0
    ELSE IF is_some(Block_get_transaction(Head(bs).transactions, txid))
    THEN 1
    ELSE IF find_map_position(Tail(bs), txid) = 0 THEN 0
    ELSE find_map_position(Tail(bs), txid) + 1

\* ----------------------------------------------------------------- actions

\* BlockChain::new, and a caller that holds nothing yet
Init ==
    /\ blocks = LinkedList_new
    /\ block_index = EmptyMap
    /\ height_index = EmptyMap
    /\ blk = None
    /\ tx = None
    /\ result = NoResult
    /\ n_txs = 0
    /\ chain_n = 0
    /\ submitted = <<>>
    /\ pc = [at |-> "caller", i |-> 0]
    /\ list = LinkedList_new
    /\ pushes = <<>>
    /\ mres = None
    /\ ret = None

\* the caller builds a block: Block::new (the block before it was submitted)
NewBlock(height, prev_block_hash, timestamp, merkle_root, nonce) ==
    /\ Len(blocks) < MaxBlocks
    /\ blk = None
    /\ blk' = Some(Block_new(height, prev_block_hash, timestamp,
                             merkle_root, nonce))
    /\ result' = NoResult
    /\ UNCHANGED <<chain, tx, n_txs, chain_n, submitted, aux>>

\* the caller builds a transaction: Transaction::new
NewTransaction(inputs, outputs) ==
    /\ n_txs < MaxTxs
    /\ tx' = Some(Transaction_new(inputs, outputs))
    /\ n_txs' = n_txs + 1
    /\ result' = NoResult
    /\ UNCHANGED <<chain, blk, chain_n, submitted, aux>>

\* block.add_transaction(tx): the transaction moves into the block
AddTransaction ==
    /\ blk # None
    /\ tx # None
    /\ blk' = Some(Block_add_transaction(blk[1], tx[1]))
    /\ tx' = None
    /\ result' = Ok
    /\ UNCHANGED <<chain, n_txs, chain_n, submitted, aux>>

\* the txids of a block's transactions, head first
Txids(block) ==
    [i \in DOMAIN block.transactions |-> block.transactions[i].txid]

\* whether the chain stays a valid chain when `block` is inserted
ValidChainNext(block) ==
    IF /\ chain_n = Len(blocks)
       /\ block.height = chain_n
       /\ (chain_n > 0 => Some(block.prev_block_hash) = get_best_block_hash)
    THEN chain_n + 1
    ELSE -1

\* BlockChain::add_block: what the call does to the chain, and its result
add_block(block) ==
    IF ~is_valid_block(block_index, block)
    THEN /\ result' = Err
         /\ UNCHANGED <<chain, chain_n, submitted>>
    ELSE /\ height_index' =
                HashMap_insert(height_index, block.height, block.hash)
         /\ blocks' = push_front(blocks, Block_clone(block))
         /\ block_index' = HashMap_insert(block_index, block.hash, block)
         /\ result' = Ok
         /\ chain_n' = ValidChainNext(block)
         /\ submitted' = <<Txids(block)>> \o submitted

\* blockchain.add_block(block): the block moves into the chain
AddBlock ==
    /\ blk # None
    /\ is_valid_block(block_index, blk[1]) => Len(blocks) < MaxBlocks
    /\ add_block(blk[1])
    /\ blk' = None
    /\ UNCHANGED <<tx, n_txs, aux>>

Next ==
    \/ \E height \in 0..MaxHeight,
          prev_block_hash \in {ZeroHash, UnknownHash} \cup DOMAIN block_index,
          timestamp \in Timestamps, merkle_root \in MerkleRoots,
          nonce \in Nonces :
            NewBlock(height, prev_block_hash, timestamp, merkle_root, nonce)
    \/ \E inputs \in TxInLists, outputs \in TxOutLists :
            NewTransaction(inputs, outputs)
    \/ AddTransaction
    \/ AddBlock

Spec == Init /\ [][Next]_vars

\* ---------------------------------------------------------------- main

\* the numbers of main
DemoBlocks == 10
GenesisTimestamp == 1231006505
GenesisNonce == 2083236893
BlockInterval == 600
\* 50 * 100000000 satoshis, counted in units of 100000000: the amount only
\* feeds its decimal text to the txid
DemoCoins == 50
DemoZeroHash ==
    "0000000000000000000000000000000000000000000000000000000000000000"
DemoGenesisMerkleRoot ==
    "4a5e1e4baab89f3a32518a88c31bc87f618f76673e2cc77ab2127b7afdeda33b"

At(place) == [pc EXCEPT !.at = place]

\* main starts: BlockChain::new()
MainStart ==
    /\ pc.at = "caller"
    /\ blocks = LinkedList_new /\ blk = None /\ tx = None
    /\ result = NoResult /\ n_txs = 0
    /\ pc' = [at |-> "genesis", i |-> 0]
    /\ UNCHANGED <<chain, blk, tx, result, n_txs, chain_n, submitted,
                   list, pushes, mres, ret>>

\* the genesis block is built
MainGenesis ==
    /\ pc.at = "genesis"
    /\ blk' = Some(Block_new(0, DemoZeroHash, GenesisTimestamp,
                             DemoGenesisMerkleRoot, GenesisNonce))
    /\ pc' = At("add_block")
    /\ result' = NoResult
    /\ UNCHANGED <<chain, tx, n_txs, chain_n, submitted,
                   list, pushes, mres, ret>>

\* blockchain.add_block(block).unwrap(), then the loop goes on or ends
MainAddBlock ==
    /\ pc.at = "add_block"
    /\ add_block(blk[1])
    /\ blk' = None
    /\ pc' = IF result' = Err THEN At("panic")
             ELSE IF pc.i + 1 < DemoBlocks
             THEN [at |-> "new_block", i |-> pc.i + 1]
             ELSE [at |-> "done", i |-> pc.i + 1]
    /\ UNCHANGED <<tx, n_txs, list, pushes, mres, ret>>

\* Block::new(i, blockchain.get_best_block_hash().unwrap(), ...)
MainNewBlock ==
    /\ pc.at = "new_block"
    /\ IF get_best_block_hash = None
       THEN pc' = At("panic") /\ UNCHANGED blk
       ELSE /\ blk' = Some(Block_new(pc.i, get_best_block_hash[1],
                                     GenesisTimestamp + pc.i * BlockInterval,
                                     "merkle_root_" \o to_string(pc.i),
                                     GenesisNonce + pc.i))
            /\ pc' = At("new_tx")
    /\ result' = NoResult
    /\ UNCHANGED <<chain, tx, n_txs, chain_n, submitted,
                   list, pushes, mres, ret>>

\* Transaction::new(LinkedList::new(), outputs) with one output pushed
MainNewTransaction ==
    /\ pc.at = "new_tx"
    /\ tx' = Some(Transaction_new(
                     LinkedList_new,
                     push_front(LinkedList_new,
                                [public_address |-> "pubkey_" \o to_string(pc.i),
                                 satoshis |-> DemoCoins])))
    /\ n_txs' = n_txs + 1
    /\ pc' = At("add_tx")
    /\ result' = NoResult
    /\ UNCHANGED <<chain, blk, chain_n, submitted, list, pushes, mres, ret>>

\* block.add_transaction(tx).unwrap()
MainAddTransaction ==
    /\ pc.at = "add_tx"
    /\ blk' = Some(Block_add_transaction(blk[1], tx[1]))
    /\ tx' = None
    /\ result' = Ok
    /\ pc' = At("add_block")
    /\ UNCHANGED <<chain, n_txs, chain_n, submitted, list, pushes, mres, ret>>

\* any caller, or main
NextMain ==
    \/ pc.at = "caller" /\ Next
    \/ MainStart
    \/ MainGenesis
    \/ MainAddBlock
    \/ MainNewBlock
    \/ MainNewTransaction
    \/ MainAddTransaction

SpecMain == Init /\ [][NextMain]_vars

\* ---------------------------------------------------- LinkedList alone

\* Longest list a caller of LinkedList builds
MaxLen == 4
ListValues == {1, 2, 3}

\* LinkedList::pop_front: what it returns and the list it leaves
pop_front(l) ==
    IF l = <<>>
    THEN [ret |-> None, list |-> <<>>]
    ELSE [ret |-> Some(Head(l)), list |-> Tail(l)]

\* LinkedList::is_empty
is_empty(l) == l = <<>>

\* LinkedList::iter: the iterator starts at the head
iter(l) == [next |-> l]

\* Iterator::next for Iter
Iter_next(it) ==
    IF it.next = <<>>
    THEN [item |-> None, it |-> it]
    ELSE [item |-> Some(Head(it.next)), it |-> [next |-> Tail(it.next)]]

\* the items an iterator yields until it answers None
RECURSIVE collect(_)
collect(it) ==
    LET step == Iter_next(it) IN
    IF step.item = None THEN <<>> ELSE step.item \o collect(step.it)

\* list.push_front(val)
ListPush(val) ==
    /\ Len(list) < MaxLen
    /\ list' = push_front(list, val)
    /\ pushes' = Append(pushes, [val |-> val, before |-> list])
    /\ ret' = None
    /\ UNCHANGED <<chain, blk, tx, result, n_txs, chain_n, submitted, pc, mres>>

\* list.pop_front()
ListPop ==
    /\ list' = pop_front(list).list
    /\ ret' = pop_front(list).ret
    /\ pushes' = IF pushes = <<>> THEN <<>>
                 ELSE SubSeq(pushes, 1, Len(pushes) - 1)
    /\ UNCHANGED <<chain, blk, tx, result, n_txs, chain_n, submitted, pc, mres>>

NextList ==
    \/ \E val \in ListValues : ListPush(val)
    \/ ListPop

SpecList == Init /\ [][NextList]_vars

\* -------------------------------------------------------- MResult alone

OkValues == {"42", "7", "a", "b", "error"}
ErrValues == {"error", "Invalid block", "a", "x", "y"}

\* MResult::ok
MResult_ok(value) == [variant |-> "Ok", value |-> value]

\* MResult::err
MResult_err(error) == [variant |-> "Err", value |-> error]

\* MResult::is_ok
is_ok(r) == r.variant = "Ok"

\* MResult::is_err
is_err(r) == r.variant = "Err"

\* MResult::unwrap, and what it would be if it never looked at the variant
\* (the panic messages are written without their backquotes)
unwrap_unchecked(r) == <<"returned", r.value>>
unwrap(r) ==
    IF r.variant = "Ok"
    THEN <<"returned", r.value>>
    ELSE <<"panicked", "called unwrap() on an Err value">>

\* MResult::unwrap_err
unwrap_err(r) ==
    IF r.variant = "Ok"
    THEN <<"panicked", "called unwrap_err() on an Ok value">>
    ELSE <<"returned", r.value>>

\* MResult::ok(value)
ResultOk(value) ==
    /\ mres' = Some(MResult_ok(value))
    /\ UNCHANGED <<chain, blk, tx, result, n_txs, chain_n, submitted, pc,
                   list, pushes, ret>>

\* MResult::err(error)
ResultErr(error) ==
    /\ mres' = Some(MResult_err(error))
    /\ UNCHANGED <<chain, blk, tx, result, n_txs, chain_n, submitted, pc,
                   list, pushes, ret>>

\* result.unwrap(): the result is consumed
ResultUnwrap ==
    /\ mres # None
    /\ ret' = <<"unwrap">> \o unwrap(mres[1])
    /\ mres' = None
    /\ UNCHANGED <<chain, blk, tx, result, n_txs, chain_n, submitted, pc,
                   list, pushes>>

\* result.unwrap_err(): the result is consumed
ResultUnwrapErr ==
    /\ mres # None
    /\ ret' = <<"unwrap_err">> \o unwrap_err(mres[1])
    /\ mres' = None
    /\ UNCHANGED <<chain, blk, tx, result, n_txs, chain_n, submitted, pc,
                   list, pushes>>

NextResult ==
    \/ \E value \in OkValues : ResultOk(value)
    \/ \E error \in ErrValues : ResultErr(error)
    \/ ResultUnwrap
    \/ ResultUnwrapErr

SpecResult == Init /\ [][NextResult]_vars

\* a caller that builds blocks without transactions, from the wider field
\* values, and submits them
NextFields ==
    \/ \E height \in 0..MaxHeight,
          prev_block_hash \in {ZeroHash, UnknownHash} \cup DOMAIN block_index,
          timestamp \in TimestampsWide, merkle_root \in MerkleRootsWide,
          nonce \in NoncesWide :
            NewBlock(height, prev_block_hash, timestamp, merkle_root, nonce)
    \/ AddBlock

SpecFields == Init /\ [][NextFields]_vars

\* a caller that builds transactions from the wider lists
NextTxid ==
    \E inputs \in TxInListsWide, outputs \in TxOutListsWide :
        NewTransaction(inputs, outputs)

SpecTxid == Init /\ [][NextTxid]_vars

\* ------------------------------------------------------------------ claims

\* the step is a call of add_block: only add_block takes the caller's block
AddBlockStep == blk # None /\ blk' = None
\* the step is a call of add_transaction: only it takes the caller's transaction
AddTransactionStep == tx # None /\ tx' = None

\* the digest of the five fields, in the order the claim gives them
FieldDigest(b) ==
    Sha256Hex(to_string(b.height) \o b.prev_block_hash
                \o to_string(b.timestamp) \o b.merkle_root
                \o to_string(b.nonce))

\* every block held anywhere: by the caller, by the sequence, by the hash index
AllBlocks ==
    {blk[i] : i \in DOMAIN blk}
      \cup {blocks[i] : i \in DOMAIN blocks}
      \cup {block_index[k] : k \in DOMAIN block_index}

\* every transaction held anywhere: by the caller or in a block held anywhere
AllTransactions ==
    {tx[i] : i \in DOMAIN tx}
      \cup UNION {{b.transactions[i] : i \in DOMAIN b.transactions} :
                    b \in AllBlocks}

\* C1: add_block of a block with height > 0 whose prev_block_hash is no key
\* of the hash index returns the error and leaves the sequence and both
\* indexes as they were.
C1_InvalidBlockRejected ==
    [][(/\ AddBlockStep
        /\ blk[1].height > 0
        /\ blk[1].prev_block_hash \notin DOMAIN block_index)
       => (/\ result' = Err
           /\ blocks' = blocks
           /\ block_index' = block_index
           /\ height_index' = height_index
           /\ get_block_count' = get_block_count)]_vars

\* a block was rejected by a chain that holds blocks
C1_Witness == result = Err /\ blk = None /\ Len(blocks) > 0

\* C2: add_block of a block with height > 0 whose prev_block_hash is the hash
\* of an inserted block returns Ok and count() grows by exactly one.
C2_LinkedBlockAccepted ==
    [][(/\ AddBlockStep
        /\ blk[1].height > 0
        /\ \E i \in DOMAIN blocks : blocks[i].hash = blk[1].prev_block_hash)
       => (/\ result' = Ok
           /\ get_block_count' = get_block_count + 1)]_vars

\* a block of height > 0 was just accepted on top of an inserted block
C2_Witness ==
    /\ result = Ok /\ blk = None /\ Len(blocks) >= 2
    /\ Head(blocks).height > 0
    /\ \E i \in 2..Len(blocks) : blocks[i].hash = Head(blocks).prev_block_hash

\* C3: is_valid_block is true for every block of height 0 whatever its
\* prev_block_hash, and for height > 0 exactly when prev_block_hash is a key
\* of the hash index; add_block of a height-0 block into the empty chain
\* succeeds.
C3_ValidityRule ==
    /\ [](\A height \in 0..MaxHeight,
             prev_block_hash \in {ZeroHash, UnknownHash} \cup DOMAIN block_index,
             timestamp \in Timestamps, merkle_root \in MerkleRoots,
             nonce \in Nonces :
            LET block == Block_new(height, prev_block_hash, timestamp,
                                   merkle_root, nonce)
            IN  is_valid_block(block_index, block)
                  <=> (height = 0 \/ prev_block_hash \in DOMAIN block_index))
    /\ [][(AddBlockStep /\ blk[1].height = 0 /\ blocks = <<>>)
          => (result' = Ok /\ get_block_count' = 1)]_vars

\* a genesis block with a prev_block_hash no block has was accepted by the
\* empty chain
C3_Witness ==
    /\ result = Ok /\ blk = None /\ Len(blocks) = 1
    /\ Head(blocks).height = 0
    /\ Head(blocks).prev_block_hash = UnknownHash

\* two blocks are the same block: the hash and the five fields agree (the
\* transactions are left out of the comparison)
SameBlock(a, b) ==
    /\ a.hash = b.hash /\ a.height = b.height
    /\ a.prev_block_hash = b.prev_block_hash /\ a.timestamp = b.timestamp
    /\ a.merkle_root = b.merkle_root /\ a.nonce = b.nonce

C5_ValidChainLookup ==
    chain_n >= 0 =>
        /\ get_block_count = chain_n
        /\ \A h \in 0..(chain_n - 1) :
             /\ is_some(get_block_by_height(h))
             /\ get_block_by_height(h)[1].height = h

\* a valid chain of a genesis and a successor
C5_Witness == chain_n >= 2 /\ get_block_count >= 2

\* C6: best_hash() is none on the empty chain; right after a successful
\* add_block(b) it is b's hash, whatever b's height; a failed add_block
\* leaves it unchanged.
C6_BestHashIsLastInserted ==
    /\ [](blocks = <<>> => get_best_block_hash = None)
    /\ [][(AddBlockStep /\ result' = Ok)
          => get_best_block_hash' = Some(blk[1].hash)]_vars
    /\ [][(AddBlockStep /\ result' = Err)
          => get_best_block_hash' = get_best_block_hash]_vars

\* the block inserted last is no taller than the one before it, and its hash
\* is the best hash
C6_Witness ==
    /\ result = Ok /\ blk = None /\ Len(blocks) = 2
    /\ blocks[1].height <= blocks[2].height
    /\ get_best_block_hash = Some(blocks[1].hash)

\* C7: every block of the sequence with height > 0 has a prev_block_hash that
\* is a key of the hash index; the key was there before the block was
\* inserted, and no key ever leaves the index.
C7_Linkage ==
    /\ [](\A i \in DOMAIN blocks :
            blocks[i].height > 0
              => blocks[i].prev_block_hash \in DOMAIN block_index)
    /\ [][(AddBlockStep /\ result' = Ok /\ blk[1].height > 0)
          => blk[1].prev_block_hash \in DOMAIN block_index]_vars
    /\ [][DOMAIN block_index \subseteq DOMAIN block_index']_vars

\* a block of height > 0 is in the sequence
C7_Witness == \E i \in DOMAIN blocks : blocks[i].height > 0

\* C8 as stated: for every transaction held anywhere, the stored txid is
\* calculate_txid() of its own inputs and outputs.
C8_TxidIsContentHash ==
    \A t \in AllTransactions :
        t.txid = Sha256Hex(input_bytes(t.inputs) \o output_bytes(t.outputs))

\* C9: a block's stored hash is the digest of (height, prev_block_hash,
\* timestamp, merkle_root, nonce) in that order, after Block::new and after
\* every add_transaction; add_transaction never changes the stored hash.
C9_HashIsFieldDigest ==
    /\ [](\A b \in AllBlocks : b.hash = FieldDigest(b))
    /\ [][AddTransactionStep => blk'[1].hash = blk[1].hash]_vars

\* two blocks with the same five fields and different transactions are held,
\* and their hashes are equal
C9_Witness ==
    \E a \in AllBlocks, b \in AllBlocks :
        /\ SameBlock(a, b)
        /\ a.transactions # b.transactions
        /\ Len(a.transactions) > 0

\* C10: add_transaction returns Ok, puts the transaction at the head of the
\* block's transactions, which grow by one with the earlier ones kept in
\* order, and find_transaction(its txid) then returns a transaction with
\* that txid.
C10_AddTransaction ==
    [][AddTransactionStep
       => (/\ result' = Ok
           /\ Len(blk'[1].transactions) = Len(blk[1].transactions) + 1
           /\ Head(blk'[1].transactions) = tx[1]
           /\ Tail(blk'[1].transactions) = blk[1].transactions
           /\ is_some(Block_get_transaction(blk'[1].transactions, tx[1].txid))
           /\ Block_get_transaction(blk'[1].transactions, tx[1].txid)[1].txid
                = tx[1].txid)]_vars

\* a second, different transaction was just added to a block
C10_Witness ==
    /\ result = Ok /\ blk # None /\ tx = None
    /\ Len(blk[1].transactions) = 2
    /\ blk[1].transactions[1] # blk[1].transactions[2]

\* the hashes of the sequence's blocks are pairwise different
DistinctHashes ==
    \A i \in DOMAIN blocks, j \in DOMAIN blocks :
        i # j => blocks[i].hash # blocks[j].hash

\* C11 as stated: count() equals the number of keys of the hash index, also
\* after a block whose hash is already present is submitted again.
C11_Original == get_block_count = Cardinality(DOMAIN block_index)

\* C11 as amended: count() is the number of blocks successfully inserted; it
\* is never less than the number of keys of the hash index, and equals it
\* exactly when the inserted blocks have pairwise different hashes (a block
\* whose hash is already present adds to count() and adds no key).
C11_CountVersusKeys ==
    /\ get_block_count >= Cardinality(DOMAIN block_index)
    /\ (get_block_count = Cardinality(DOMAIN block_index)) <=> DistinctHashes

\* a block whose hash was already present was inserted: two blocks, one key
C11_Witness ==
    /\ get_block_count = 2
    /\ Cardinality(DOMAIN block_index) = 1
    /\ blocks[1].hash = blocks[2].hash

\* the txids of the transactions a caller can build
AllTxids ==
    {Transaction_new(inputs, outputs).txid :
        inputs \in TxInLists, outputs \in TxOutLists}

\* the inserted blocks, most recent first = 1, that held `txid` when submitted
Holders(txid) ==
    {i \in DOMAIN submitted :
        \E j \in DOMAIN submitted[i] : submitted[i][j] = txid}

Min(S) == CHOOSE x \in S : \A y \in S : x <= y

\* C12: find_transaction(txid) returns a transaction with that txid exactly
\* when some inserted block held one when it was submitted, and the result
\* then comes from the most recently inserted of those blocks.
C12_FindTransaction ==
    \A txid \in AllTxids :
        /\ is_some(get_transaction(txid)) <=> Holders(txid) # {}
        /\ Holders(txid) # {} =>
             /\ get_transaction(txid)[1].txid = txid
             /\ find_map_position(blocks, txid) = Min(Holders(txid))

\* a transaction is found that two inserted blocks held when submitted
C12_Witness ==
    \E txid \in AllTxids :
        /\ Holders(txid) = {1, 2}
        /\ is_some(get_transaction(txid))
        /\ find_map_position(blocks, txid) = 1

\* the five fields of two blocks agree
SameFields(a, b) ==
    /\ a.height = b.height /\ a.prev_block_hash = b.prev_block_hash
    /\ a.timestamp = b.timestamp /\ a.merkle_root = b.merkle_root
    /\ a.nonce = b.nonce

\* the number of the five fields in which two blocks differ
FieldsDiffering(a, b) ==
    (IF a.height = b.height THEN 0 ELSE 1)
      + (IF a.prev_block_hash = b.prev_block_hash THEN 0 ELSE 1)
      + (IF a.timestamp = b.timestamp THEN 0 ELSE 1)
      + (IF a.merkle_root = b.merkle_root THEN 0 ELSE 1)
      + (IF a.nonce = b.nonce THEN 0 ELSE 1)

\* C13: two blocks built from the same five fields have the same hash, and
\* two blocks that differ in exactly one of the five fields have different
\* hashes.
C13_HashDeterministicAndSensitive ==
    \A a \in AllBlocks, b \in AllBlocks :
        /\ FieldsDiffering(a, b) = 0 => a.hash = b.hash
        /\ FieldsDiffering(a, b) = 1 => a.hash # b.hash

\* the caller's block and a block of the chain differ in the nonce alone, and
\* their hashes differ
C13_Witness ==
    /\ blk # None
    /\ \E i \in DOMAIN blocks :
         /\ FieldsDiffering(blk[1], blocks[i]) = 1
         /\ blk[1].nonce # blocks[i].nonce
         /\ blk[1].hash # blocks[i].hash

\* C16: every hash stored in the height index is a key of the hash index, and
\* a block returned by lookup_by_height(h) has height h.
C16_HeightLookup ==
    /\ \A h \in DOMAIN height_index : height_index[h] \in DOMAIN block_index
    /\ \A h \in 0..MaxHeight :
         /\ is_some(HashMap_get(height_index, h))
              => is_some(get_block_by_height(h))
         /\ is_some(get_block_by_height(h))
              => get_block_by_height(h)[1].height = h

\* both heights are looked up in a chain where one key of the hash index was
\* written twice, by blocks with different fields
C16_Witness ==
    /\ Len(blocks) = 2
    /\ blocks[1].hash = blocks[2].hash
    /\ ~SameFields(blocks[1], blocks[2])
    /\ is_some(get_block_by_height(0))

\* C17 as stated: two blocks whose five fields differ in one or more fields
\* feed different bytes to the digest, so they have different hashes and a
\* key of the hash index stands for one tuple of fields only.
C17_BytesIdentifyFields ==
    /\ \A a \in AllBlocks, b \in AllBlocks :
         ~SameFields(a, b) => a.hash # b.hash
    /\ \A i \in DOMAIN blocks :
         blocks[i].hash \in DOMAIN block_index
           => SameFields(block_index[blocks[i].hash], blocks[i])

\* the lists that hold the elements of `s` in another order
Reorderings(s) ==
    {[i \in DOMAIN s |-> s[p[i]]] :
        p \in {q \in [DOMAIN s -> DOMAIN s] :
                 \A i \in DOMAIN s, j \in DOMAIN s : i # j => q[i] # q[j]}}
      \ {s}

\* C14 as stated: the same inputs and outputs give the same txid, and putting
\* the inputs or the outputs in another order changes the txid.
C14_TxidOrderSensitive ==
    tx # None =>
        /\ Transaction_new(tx[1].inputs, tx[1].outputs).txid = tx[1].txid
        /\ \A inputs \in Reorderings(tx[1].inputs) :
             Transaction_new(inputs, tx[1].outputs).txid # tx[1].txid
        /\ \A outputs \in Reorderings(tx[1].outputs) :
             Transaction_new(tx[1].inputs, outputs).txid # tx[1].txid

\* C15 as stated: after a successful add_block(b) the head of the sequence and
\* the block lookup_by_hash(b.hash) returns are b as it was submitted: the
\* same fields and hash, the same transactions in the same order, each with
\* the same inputs and outputs in the same order.
C15_StoredUnchanged ==
    [][(AddBlockStep /\ result' = Ok)
       => (/\ Head(blocks') = blk[1]
           /\ get_block_by_hash(block_index', blk[1].hash) = Some(blk[1]))]_vars

\* C18: on a chain that holds blocks best_hash() is a key of the hash index,
\* so a block of height > 0 built on best_hash() is accepted; main never
\* unwraps an error and ends with count() = 10.
C18_BestHashAccepted ==
    /\ [](blocks # <<>> => get_best_block_hash[1] \in DOMAIN block_index)
    /\ [][(/\ AddBlockStep
           /\ blk[1].height > 0
           /\ Some(blk[1].prev_block_hash) = get_best_block_hash)
          => (result' = Ok /\ get_block_count' = get_block_count + 1)]_vars
    /\ [](pc.at # "panic")
    /\ [](pc.at = "done" => get_block_count = DemoBlocks)

\* main is done: ten blocks, the last nine with a transaction
C18_Witness ==
    /\ pc.at = "done"
    /\ get_block_count = 10
    /\ Len(Head(blocks).transactions) = 1
    /\ Head(blocks).height = 9

\* the values pushed and not yet popped, latest first
PushedLatestFirst ==
    [i \in 1..Len(pushes) |-> pushes[Len(pushes) + 1 - i].val]

\* a step that is not a push
ListPopStep == Len(pushes') <= Len(pushes)

\* C19: LinkedList is a LIFO stack: iter() yields the elements latest push
\* first; pop_front returns the latest pushed element that remains and leaves
\* the list as it was before that push; on an empty list it returns None and
\* leaves it empty; is_empty() holds exactly when no element remains.
C19_Lifo ==
    /\ [](collect(iter(list)) = PushedLatestFirst)
    /\ [](is_empty(list) <=> pushes = <<>>)
    /\ [][ListPopStep
          => IF pushes = <<>>
             THEN ret' = None /\ list' = <<>> /\ is_empty(list')
             ELSE /\ ret' = Some(pushes[Len(pushes)].val)
                  /\ list' = pushes[Len(pushes)].before]_vars

\* a pop has returned an element and two different ones remain
C19_Witness ==
    /\ ret # None
    /\ Len(list) >= 2
    /\ list[1] # list[2]
    /\ collect(iter(list)) = list

\* C20: exactly one of is_ok() and is_err() holds of a result; unwrap returns
\* the value of an Ok and panics on an Err, unwrap_err returns the error of an
\* Err and panics on an Ok; nothing else panics.
C20_UnwrapMatchesVariant ==
    /\ [](mres # None => (is_ok(mres[1]) <=> ~is_err(mres[1])))
    /\ [][(mres # None /\ mres' = None)
          => LET r == mres[1]
                 matches == \/ ret'[1] = "unwrap" /\ is_ok(r)
                            \/ ret'[1] = "unwrap_err" /\ is_err(r)
             IN /\ ret'[1] \in {"unwrap", "unwrap_err"}
                /\ IF matches
                   THEN ret'[2] = "returned" /\ ret'[3] = r.value
                   ELSE ret'[2] = "panicked"]_vars

\* an unwrap has panicked on an Err and an Ok with the same text waits
C20_Witness ==
    /\ ret # None
    /\ ret[1] = "unwrap"
    /\ ret[2] = "panicked"
    /\ mres = Some(MResult_ok("error"))

====
